---- MODULE Spec2Model ----
(***************************************************************************)
(* Model of flatten_tables.py: the batch driver, process_table (classify,  *)
(* melt, map, pivot, type cleaning, save) and extract_year_and_metric.     *)
(*                                                                         *)
(* Text is a sequence of characters, each character a one-character        *)
(* string; the en dash (U+2013) is the character named EnDash.  A cell is   *)
(* NA (pandas NaN), Str(text) or Num(integer).  A table is a record of an   *)
(* ordered list of column names and an ordered list of rows, each row a     *)
(* sequence of cells as long as the list of columns.                        *)
(***************************************************************************)
EXTENDS Integers, Sequences, FiniteSets, TLC

VARIABLES
    input_dir,          \* the input directory: "missing" or its listing
    files,              \* files = get_files()
    fi,                 \* position of the main loop in files
    pc,                 \* control point of the program
    df,                 \* process_table: the table read from the file
    time_series_cols,   \* process_table: headers that yield a year
    mappings,           \* process_table: header -> (year, metric)
    id_vars,            \* process_table: the anchors
    df_melt,            \* process_table: the melted table
    df_out,             \* process_table: the table being produced
    df_reshaped,        \* df_out as it entered step 3 (history)
    path,               \* which branch of step 2 was taken (history)
    outputs,            \* the output directory: files written so far
    log,                \* what was printed
    col_name,           \* extract_year_and_metric: the argument
    result              \* extract_year_and_metric: the value returned

vars == <<input_dir, files, fi, pc, df, time_series_cols, mappings, id_vars,
          df_melt, df_out, df_reshaped, path, outputs, log, col_name, result>>

(***************************************************************************)
(* Characters and text                                                     *)
(***************************************************************************)
EnDash == "u2013"

Digits == {"0", "1", "2", "3", "4", "5", "6", "7", "8", "9"}

IsDigit(c) == c \in Digits

\* The separators of YEAR_PATTERN's and the range pattern's class [-EnDash].
IsDash(c) == c \in {"-", EnDash}

\* What str.strip() with no argument removes.
Whitespace == {" ", "\t", "\n", "\r"}

\* The argument of metric.strip('()[]').
BracketChars == {"(", ")", "[", "]"}

\* The number of digits \d{4} asks for.
YearDigits == 4

Min(S) == CHOOSE x \in S : \A y \in S : x <= y

SubText(s, i, j) == IF i > j THEN <<>> ELSE SubSeq(s, i, j)

\* s[i..] starts with t.
StartsWithAt(s, i, t) ==
    /\ i + Len(t) - 1 <= Len(s)
    /\ \A k \in 1..Len(t) : s[i + k - 1] = t[k]

\* \d{4} matches at position i of s.
DigitsAt(s, i) ==
    /\ i >= 1
    /\ i + YearDigits - 1 <= Len(s)
    /\ \A k \in 0..(YearDigits - 1) : IsDigit(s[i + k])

\* The length of the match of YEAR_PATTERN starting at i: the optional group
\* (?:[-EnDash]\d{4})? is greedy.
YearMatchLen(s, i) ==
    IF /\ i + YearDigits <= Len(s)
       /\ IsDash(s[i + YearDigits])
       /\ DigitsAt(s, i + YearDigits + 1)
    THEN 2 * YearDigits + 1
    ELSE YearDigits

\* re.search(YEAR_PATTERN, s): the start of the leftmost match, 0 for None.
YEAR_PATTERN(s) ==
    IF \E i \in 1..Len(s) : DigitsAt(s, i)
    THEN Min({i \in 1..Len(s) : DigitsAt(s, i)})
    ELSE 0

\* year.replace(EnDash, '-')
NormalizeDash(s) == [k \in 1..Len(s) |-> IF s[k] = EnDash THEN "-" ELSE s[k]]

\* s.replace(old, '', 1): only the first occurrence of old goes.
ReplaceFirstOnly(s, old) ==
    IF \E i \in 1..Len(s) : StartsWithAt(s, i, old)
    THEN LET i == Min({j \in 1..Len(s) : StartsWithAt(s, j, old)})
         IN  SubText(s, 1, i - 1) \o SubText(s, i + Len(old), Len(s))
    ELSE s

\* s.replace(old, ''): every occurrence of old goes, scanning from the left.
RECURSIVE RemoveFrom(_, _, _)
RemoveFrom(s, i, old) ==
    IF i > Len(s) THEN <<>>
    ELSE IF StartsWithAt(s, i, old) THEN RemoveFrom(s, i + Len(old), old)
    ELSE <<s[i]>> \o RemoveFrom(s, i + 1, old)

StrReplace(s, old) == RemoveFrom(s, 1, old)

\* s.strip(chars): every leading and every trailing character in chars goes.
RECURSIVE LStrip(_, _)
LStrip(s, chars) ==
    IF s # <<>> /\ Head(s) \in chars THEN LStrip(Tail(s), chars) ELSE s

RECURSIVE RStrip(_, _)
RStrip(s, chars) ==
    IF s # <<>> /\ s[Len(s)] \in chars
    THEN RStrip(SubText(s, 1, Len(s) - 1), chars)
    ELSE s

\* One character of chars off each end of s, where there is one.
StripOneLayer(s, chars) ==
    LET a == IF s # <<>> /\ Head(s) \in chars THEN Tail(s) ELSE s
    IN  IF a # <<>> /\ a[Len(a)] \in chars THEN SubText(a, 1, Len(a) - 1) ELSE a

StrStrip(s, chars) == RStrip(LStrip(s, chars), chars)

\* The literal "Value".
ValueText == <<"V", "a", "l", "u", "e">>

NoneResult == [matched |-> FALSE, year |-> <<>>, metric |-> <<>>]

\* Only the first occurrence of the match is removed: replace(m, '', 1).
extract_year_and_metric_first(col) ==
    LET at == YEAR_PATTERN(col) IN
    IF at = 0 THEN NoneResult
    ELSE LET m      == SubText(col, at, at + YearMatchLen(col, at) - 1)
             metric == StrStrip(StrStrip(ReplaceFirstOnly(col, m), Whitespace),
                                BracketChars)
         IN  [matched |-> TRUE,
              year    |-> NormalizeDash(m),
              metric  |-> IF metric = <<>> THEN ValueText ELSE metric]

\* The year is left in the metric: no replace before the strips.
extract_year_and_metric_keep(col) ==
    LET at == YEAR_PATTERN(col) IN
    IF at = 0 THEN NoneResult
    ELSE LET m      == SubText(col, at, at + YearMatchLen(col, at) - 1)
             metric == StrStrip(StrStrip(col, Whitespace), BracketChars)
         IN  [matched |-> TRUE,
              year    |-> NormalizeDash(m),
              metric  |-> IF metric = <<>> THEN ValueText ELSE metric]

extract_year_and_metric(col) ==
    LET at == YEAR_PATTERN(col) IN
    IF at = 0 THEN NoneResult
    ELSE LET m      == SubText(col, at, at + YearMatchLen(col, at) - 1)
             metric == StrStrip(StrStrip(StrReplace(col, m), Whitespace),
                                BracketChars)
         IN  [matched |-> TRUE,
              year    |-> NormalizeDash(m),
              metric  |-> IF metric = <<>> THEN ValueText ELSE metric]

(***************************************************************************)
(* Cells, tables and the order pandas sorts text in                        *)
(***************************************************************************)
NA == [k |-> "na", s |-> <<>>, n |-> 0]

Str(t) == [k |-> "str", s |-> t, n |-> 0]

Num(i) == [k |-> "num", s |-> <<>>, n |-> i]

\* The characters of the model in the order of their code points: tab, line
\* feed, carriage return, the printable ASCII characters but the double quote,
\* the backslash and the backquote, and the en dash.
CharOrder ==
    <<"\t", "\n", "\r", " ", "!", "#", "$", "%", "&", "'", "(", ")",
      "*", "+", ",", "-", ".", "/", "0", "1", "2", "3", "4", "5", "6", "7",
      "8", "9", ":", ";", "<", "=", ">", "?", "@", "A", "B", "C", "D", "E",
      "F", "G", "H", "I", "J", "K", "L", "M", "N", "O", "P", "Q", "R", "S",
      "T", "U", "V", "W", "X", "Y", "Z", "[", "]", "^", "_",
      "a", "b", "c", "d", "e", "f", "g", "h", "i", "j", "k", "l", "m", "n",
      "o", "p", "q", "r", "s", "t", "u", "v", "w", "x", "y", "z", "{", "|",
      "}", "~", EnDash>>

CharRank(c) == CHOOSE i \in 1..Len(CharOrder) : CharOrder[i] = c

\* a < b on two str of Python.
RECURSIVE TextLess(_, _)
TextLess(a, b) ==
    IF b = <<>> THEN FALSE
    ELSE IF a = <<>> THEN TRUE
    ELSE IF Head(a) = Head(b) THEN TextLess(Tail(a), Tail(b))
    ELSE CharRank(Head(a)) < CharRank(Head(b))

\* The order of group keys: text by code points, numbers by value.
CellLess(a, b) ==
    IF a.k = "num" /\ b.k = "num" THEN a.n < b.n ELSE TextLess(a.s, b.s)

\* Tuples of cells of one length, compared from the left.
RECURSIVE KeyLess(_, _)
KeyLess(a, b) ==
    IF a = <<>> \/ b = <<>> THEN FALSE
    ELSE IF Head(a) = Head(b) THEN KeyLess(Tail(a), Tail(b))
    ELSE CellLess(Head(a), Head(b))

RECURSIVE SortKeys(_)
SortKeys(S) ==
    IF S = {} THEN <<>>
    ELSE LET m == CHOOSE x \in S : \A y \in S \ {x} : KeyLess(x, y)
         IN  <<m>> \o SortKeys(S \ {m})

RECURSIVE SortText(_)
SortText(S) ==
    IF S = {} THEN <<>>
    ELSE LET m == CHOOSE x \in S : \A y \in S \ {x} : TextLess(x, y)
         IN  <<m>> \o SortText(S \ {m})

Range(s) == {s[i] : i \in 1..Len(s)}

\* The position of column name in a list of columns.
ColIndex(columns, name) ==
    Min({i \in 1..Len(columns) : columns[i] = name})

Column(t, name) ==
    [r \in 1..Len(t.rows) |-> t.rows[r][ColIndex(t.columns, name)]]

\* t[name] = values: an existing column is overwritten, a new one is appended.
SetColumn(t, name, values) ==
    IF name \in Range(t.columns)
    THEN [t EXCEPT !.rows =
            [r \in 1..Len(t.rows) |->
                [t.rows[r] EXCEPT ![ColIndex(t.columns, name)] = values[r]]]]
    ELSE [columns |-> Append(t.columns, name),
          rows    |-> [r \in 1..Len(t.rows) |-> Append(t.rows[r], values[r])]]

\* t.drop(columns=[name])
DropColumn(t, name) ==
    LET keep == SelectSeq([i \in 1..Len(t.columns) |-> i],
                          LAMBDA i : t.columns[i] # name)
    IN  [columns |-> [j \in 1..Len(keep) |-> t.columns[keep[j]]],
         rows    |-> [r \in 1..Len(t.rows) |->
                        [j \in 1..Len(keep) |-> t.rows[r][keep[j]]]]]

\* df.empty
IsEmpty(t) == Len(t.columns) = 0 \/ Len(t.rows) = 0

NoTable == [columns |-> <<>>, rows |-> <<>>]

\* The column names process_table adds.
YearName == <<"Y", "e", "a", "r">>

MetricName == <<"M", "e", "t", "r", "i", "c">>

TempValueName == <<"t", "e", "m", "p", "_", "v", "a", "l", "u", "e">>

OriginalHeaderName ==
    <<"o", "r", "i", "g", "i", "n", "a", "l", "_", "h", "e", "a", "d", "e", "r">>

(***************************************************************************)
(* process_table, step 1: time-series columns and anchors                  *)
(***************************************************************************)
\* A header counts only when the whole of it is a year (a full match in
\* place of a search).
YieldsYearFullMatch(col) ==
    LET at == YEAR_PATTERN(col)
    IN  at = 1 /\ YearMatchLen(col, 1) = Len(col)

\* "if year:" a matched year is a non-empty string, so it is true.
YieldsYear(col) ==
    LET e == extract_year_and_metric(col) IN e.matched /\ e.year # <<>>

TimeSeriesCols(columns) == SelectSeq(columns, YieldsYear)

Mappings(columns) ==
    [c \in Range(TimeSeriesCols(columns)) |->
        <<extract_year_and_metric(c).year, extract_year_and_metric(c).metric>>]

IdVars(columns, ts) == SelectSeq(columns, LAMBDA c : c \notin Range(ts))

(***************************************************************************)
(* process_table, step 2: melt, map, pivot                                 *)
(***************************************************************************)
\* df.melt(id_vars, value_vars, var_name='original_header',
\* value_name='temp_value') raises when value_name is a column of df.
MeltRaises(t) == TempValueName \in Range(t.columns)

\* One row per (time-series column, input row): the columns in their order,
\* and within each column the rows in theirs.
Melt(t, ids, ts) ==
    LET n == Len(t.rows) IN
    [columns |-> ids \o <<OriginalHeaderName, TempValueName>>,
     rows    |-> [k \in 1..(n * Len(ts)) |->
                    LET c == ts[((k - 1) \div n) + 1]
                        r == t.rows[((k - 1) % n) + 1]
                    IN  [i \in 1..Len(ids) |-> r[ColIndex(t.columns, ids[i])]]
                        \o <<Str(c), r[ColIndex(t.columns, c)]>>]]

\* df_melt['Year'] and df_melt['Metric'] from original_header through mappings.
MapYearMetric(m, map) ==
    LET hdr == Column(m, OriginalHeaderName)
        y   == [r \in 1..Len(m.rows) |-> Str(map[hdr[r].s][1])]
        mt  == [r \in 1..Len(m.rows) |-> Str(map[hdr[r].s][2])]
    IN  SetColumn(SetColumn(m, YearName, y), MetricName, mt)

\* pivot_index = id_vars + ['Year']: the cells of a melted row under it.
PivotKey(m, ids, row) ==
    [i \in 1..Len(ids) |-> row[ColIndex(m.columns, ids[i])]]
    \o <<row[ColIndex(m.columns, YearName)]>>

\* groupby with dropna=False: every melted row is kept.
GroupedRowsAll(m, ids) == 1..Len(m.rows)

\* The melted rows groupby keeps: those with no missing cell among the keys
\* (dropna=True).  Year and Metric are never missing.
GroupedRows(m, ids) ==
    {k \in 1..Len(m.rows) : \A i \in 1..Len(PivotKey(m, ids, m.rows[k])) :
                                PivotKey(m, ids, m.rows[k])[i] # NA}

\* The melted rows of one group: one key under pivot_index and one Metric.
GroupOf(m, ids, key, metric) ==
    {k \in GroupedRows(m, ids) :
        /\ PivotKey(m, ids, m.rows[k]) = key
        /\ m.rows[k][ColIndex(m.columns, MetricName)] = Str(metric)}

\* The first value of the group, missing or not.
AggFirstAny(m, ids, key, metric) ==
    LET g == GroupOf(m, ids, key, metric)
    IN  IF g = {} THEN NA
        ELSE m.rows[Min(g)][ColIndex(m.columns, TempValueName)]

\* aggfunc='first' is GroupBy.first: the first value of the group that is not
\* missing, and missing when the group has none.
AggFirst(m, ids, key, metric) ==
    LET g == {k \in GroupOf(m, ids, key, metric) :
                 m.rows[k][ColIndex(m.columns, TempValueName)] # NA}
    IN  IF g = {} THEN NA
        ELSE m.rows[Min(g)][ColIndex(m.columns, TempValueName)]

\* The groups left by agged.dropna(how="all"): those whose value is not missing.
LiveGroups(m, ids) ==
    {<<PivotKey(m, ids, m.rows[k]), m.rows[k][ColIndex(m.columns, MetricName)].s>> :
        k \in {j \in GroupedRows(m, ids) :
                  m.rows[j][ColIndex(m.columns, TempValueName)] # NA}}

\* The metrics in the order the melted rows first show them.
PivotMetricsUnsorted(m, ids) ==
    LET live  == LiveGroups(m, ids)
        rows  == m.rows
        mi    == ColIndex(m.columns, MetricName)
        firstAt(x) == Min({k \in 1..Len(rows) : rows[k][mi].s = x})
        names == {g[2] : g \in live}
        Less(a, b) == firstAt(a) < firstAt(b)
        RECURSIVE Ord(_)
        Ord(S) == IF S = {} THEN <<>>
                  ELSE LET x == CHOOSE y \in S : \A z \in S \ {y} : Less(y, z)
                       IN  <<x>> \o Ord(S \ {x})
    IN  Ord(names)

\* The metric columns of the pivoted table: unstack and sort_index(axis=1)
\* leave the metrics of the live groups in ascending order.
PivotMetrics(m, ids) == SortText({g[2] : g \in LiveGroups(m, ids)})

\* The index of the pivoted table: the keys of the live groups, ascending.
PivotIndex(m, ids) == SortKeys({g[1] : g \in LiveGroups(m, ids)})

\* reset_index() raises when an index level's name is already a column.
PivotRaises(m, ids) ==
    \E x \in Range(PivotMetrics(m, ids)) : x \in Range(ids) \cup {YearName}

\* df_melt.pivot_table(index=pivot_index, columns='Metric',
\* values='temp_value', aggfunc='first').reset_index()
\* A table with no live group comes out with the index columns and no row.
PivotTable(m, ids) ==
    LET idx == PivotIndex(m, ids)
        mts == PivotMetrics(m, ids)
    IN  [columns |-> ids \o <<YearName>> \o mts,
         rows    |-> [r \in 1..Len(idx) |->
                        idx[r] \o [j \in 1..Len(mts) |->
                                      AggFirst(m, ids, idx[r], mts[j])]]]

(***************************************************************************)
(* process_table, step 3: type cleaning                                    *)
(***************************************************************************)
\* r'\d+[-EnDash]\d+' is found in s: a digit, a dash, a digit in a row.
ContainsRange(s) ==
    \E i \in 1..(Len(s) - 2) :
        IsDigit(s[i]) /\ IsDash(s[i + 1]) /\ IsDigit(s[i + 2])

DigitValue(c) == CHOOSE d \in 0..9 : <<"0", "1", "2", "3", "4", "5", "6", "7", "8", "9">>[d + 1] = c

RECURSIVE DigitsValue(_)
DigitsValue(s) ==
    IF s = <<>> THEN 0
    ELSE 10 * DigitsValue(SubText(s, 1, Len(s) - 1)) + DigitValue(s[Len(s)])

AllDigits(s) == s # <<>> /\ \A i \in 1..Len(s) : IsDigit(s[i])

RECURSIVE IntText(_)
IntText(i) ==
    IF i < 0 THEN <<"-">> \o IntText(-i)
    ELSE IF i < 10 THEN <<CHOOSE c \in Digits : DigitValue(c) = i>>
    ELSE IntText(i \div 10) \o IntText(i % 10)

\* .astype(str) on a cell that is not missing.
AsStr(cell) == IF cell.k = "num" THEN IntText(cell.n) ELSE cell.s

\* pd.to_numeric(errors='coerce') on one cell, for text made of digits, signs,
\* dashes, letters and brackets: a signed run of digits is its number, a
\* number stays, anything else is missing.
ToNumeric(cell) ==
    IF cell.k # "str" THEN cell
    ELSE LET t == cell.s IN
         IF AllDigits(t) THEN Num(DigitsValue(t))
         ELSE IF t # <<>> /\ Head(t) = "-" /\ AllDigits(Tail(t))
              THEN Num(-DigitsValue(Tail(t)))
         ELSE IF t # <<>> /\ Head(t) = "+" /\ AllDigits(Tail(t))
              THEN Num(DigitsValue(Tail(t)))
         ELSE NA

\* sample_values of a column: its cells that are not missing, as text.
SampleValues(t, name) ==
    LET c == Column(t, name)
    IN  {AsStr(c[r]) : r \in {q \in 1..Len(t.rows) : c[q] # NA}}

\* The anchors are forgotten: only Year is skipped.
IsExemptYearOnly(name, ids) == name = YearName

\* "if col in id_vars or col == 'Year': continue"
IsExempt(name, ids) == name \in Range(ids) \/ name = YearName

\* .all() in place of .any()
IsRangeColumnAll(t, name) ==
    \A v \in SampleValues(t, name) : ContainsRange(v)

\* is_range: .str.contains(...).any()
IsRangeColumn(t, name) ==
    \E v \in SampleValues(t, name) : ContainsRange(v)

\* One pass of the loop of step 3 over column number j of t.
CleanColumn(t, ids, j) ==
    LET name == t.columns[j] IN
    IF IsExempt(name, ids) THEN t
    ELSE IF SampleValues(t, name) = {} THEN t
    ELSE IF IsRangeColumn(t, name) THEN t
    ELSE SetColumn(t, name,
                   [r \in 1..Len(t.rows) |-> ToNumeric(Column(t, name)[r])])

\* The loop "for col in df_out.columns", columns 1..j done.
RECURSIVE CleanUpTo(_, _, _)
CleanUpTo(t, ids, j) ==
    IF j = 0 THEN t ELSE CleanColumn(CleanUpTo(t, ids, j - 1), ids, j)

CleanTypes(t, ids) == CleanUpTo(t, ids, Len(t.columns))

(***************************************************************************)
(* The inputs                                                              *)
(***************************************************************************)
\* Bounds of the model.
MaxTokens == 4

MaxRows == 2

MaxCells == 6

MaxFiles == 2

\* Headers given to extract_year_and_metric: 1..MaxTokens of these pieces.
Tokens ==
    {<<"2", "0", "1", "8">>, <<"2", "0", "1", "9">>, <<"-">>, <<EnDash>>, <<" ">>,
     <<"(">>, <<"]">>, <<"R">>, <<"9">>}

RECURSIVE Concats(_)
Concats(n) ==
    IF n = 0 THEN {<<>>}
    ELSE {h \o t : h \in Concats(n - 1), t \in Tokens}

HeaderPool == UNION {Concats(n) : n \in 1..MaxTokens}

\* Column names of the input tables.
H_ID == <<"I", "D">>

H_Sex == <<"S", "e", "x">>

H_2018_Rate == <<"2", "0", "1", "8", " ", "R", "a", "t", "e">>

H_2019_Rate == <<"2", "0", "1", "9", " ", "R", "a", "t", "e">>

H_2018_CI == <<"2", "0", "1", "8", " ", "C", "I">>

H_Rate_2018 == <<"R", "a", "t", "e", " ", "2", "0", "1", "8">>

H_2018 == <<"2", "0", "1", "8">>

H_2019 == <<"2", "0", "1", "9">>

H_2018_Rate_2019 == <<"2", "0", "1", "8", " ", "R", "a", "t", "e", " ", "2", "0", "1", "9">>

H_2018_ID == <<"2", "0", "1", "8", " ", "I", "D">>

H_ID_201 == <<"I", "D", " ", "2", "0", "1">>

H_Rate_2018_2019 == <<"R", "a", "t", "e", " ", "2", "0", "1", "8", EnDash, "2", "0", "1", "9">>

\* The header rows of the input tables.
Layouts ==
    {<<H_ID, H_Sex>>,
     <<H_ID, H_2018_Rate, H_2019_Rate>>,
     <<H_ID, H_2018_Rate, H_2018_CI>>,
     <<H_ID, H_2018_Rate, H_Rate_2018>>,
     <<H_ID, H_Sex, H_2018_Rate>>,
     <<H_2018, H_2019>>,
     <<H_ID, H_2018_Rate_2019>>,
     <<H_ID, H_2018_ID>>,
     <<TempValueName, H_2018>>,
     <<H_2018_Rate, H_ID>>,
     <<H_ID_201, H_Rate_2018_2019>>}

\* The cells of the input tables: missing, a number as text, a sentinel, a
\* range.
CellPool == {NA, Str(<<"1", "2">>), Str(<<"F">>), Str(<<"1", "-", "2">>)}

TablesOf(layout, n) ==
    {[columns |-> layout, rows |-> rs] :
        rs \in [1..n -> [1..Len(layout) -> CellPool]]}

Tables ==
    UNION {TablesOf(ln[1], ln[2]) :
              ln \in {x \in Layouts \X (0..MaxRows) : x[2] * Len(x[1]) <= MaxCells}}

CsvName == <<"a", ".", "c", "s", "v">>

\* A directory entry: its name, whether read_csv can read it, what it reads.
Entry(name, readable, table) ==
    [name |-> name, readable |-> readable, table |-> table]

FilePool ==
    {Entry(CsvName, FALSE, NoTable)} \cup {Entry(CsvName, TRUE, t) : t \in Tables}

Row1(a, b) == <<<<a, b>>>>

\* The entries of the directories of a batch run.
BatchPool ==
    {Entry(<<"a", ".", "c", "s", "v">>, TRUE,
           [columns |-> <<H_ID, H_Sex>>, rows |-> Row1(Str(<<"F">>), NA)]),
     Entry(<<"b", ".", "c", "s", "v">>, TRUE,
           [columns |-> <<H_ID, H_2018>>,
            rows |-> Row1(Str(<<"F">>), Str(<<"1", "2">>))]),
     Entry(<<"c", ".", "c", "s", "v">>, FALSE, NoTable),
     Entry(<<"d", ".", "c", "s", "v">>, TRUE, [columns |-> <<H_ID, H_2018>>, rows |-> <<>>]),
     Entry(<<"e", ".", "c", "s", "v">>, TRUE,
           [columns |-> <<TempValueName, H_2018>>,
            rows |-> Row1(Str(<<"F">>), Str(<<"1", "2">>))]),
     Entry(<<"f", ".", "c", "s", "v">>, TRUE,
           [columns |-> <<H_ID, H_2018_ID>>,
            rows |-> Row1(Str(<<"F">>), Str(<<"1", "2">>))]),
     Entry(<<"n", ".", "t", "x", "t">>, TRUE, NoTable)}

\* Listings of at most n entries with different names.
RECURSIVE Listings(_)
Listings(n) ==
    IF n = 0 THEN {<<>>}
    ELSE Listings(n - 1) \cup
         {Append(l, e) : l \in {x \in Listings(n - 1) : Len(x) = n - 1},
                         e \in BatchPool}

DistinctNames(l) ==
    \A i, j \in 1..Len(l) : i # j => l[i].name # l[j].name

(***************************************************************************)
(* get_files and the main loop                                             *)
(***************************************************************************)
CsvSuffix == <<".", "c", "s", "v">>

FlatPrefix == <<"f", "l", "a", "t", "_">>

\* f.endswith('.csv')
EndsWith(s, suffix) ==
    Len(s) >= Len(suffix) /\ StartsWithAt(s, Len(s) - Len(suffix) + 1, suffix)

get_files(dir) ==
    IF ~dir.exists THEN <<>>
    ELSE SelectSeq(dir.entries, LAMBDA e : EndsWith(e.name, CsvSuffix))

Said(msg, name) == [msg |-> msg, file |-> name]

Idle ==
    /\ df = NoTable
    /\ time_series_cols = <<>>
    /\ mappings = <<>>
    /\ id_vars = <<>>
    /\ df_melt = NoTable
    /\ df_out = NoTable
    /\ df_reshaped = NoTable
    /\ path = "none"

InitCommon ==
    /\ files = <<>>
    /\ fi = 0
    /\ Idle
    /\ outputs = <<>>
    /\ log = <<>>

\* One input file, or no input directory.
Init ==
    /\ input_dir \in {[exists |-> FALSE, entries |-> <<>>]}
                     \cup {[exists |-> TRUE, entries |-> <<e>>] : e \in FilePool}
    /\ pc = "main"
    /\ InitCommon
    /\ col_name = <<>>
    /\ result = NoneResult

\* A directory of up to MaxFiles entries, or no input directory.
InitBatch ==
    /\ input_dir \in {[exists |-> FALSE, entries |-> <<>>]}
                     \cup {[exists |-> TRUE, entries |-> l] :
                              l \in {x \in Listings(MaxFiles) : DistinctNames(x)}}
    /\ pc = "main"
    /\ InitCommon
    /\ col_name = <<>>
    /\ result = NoneResult

\* A call of extract_year_and_metric on a header.
InitExtract ==
    /\ input_dir = [exists |-> FALSE, entries |-> <<>>]
    /\ pc = "extract"
    /\ InitCommon
    /\ col_name \in HeaderPool
    /\ result = NoneResult

\* The locals of a call of process_table that has returned.
ResetLocals ==
    /\ df' = NoTable
    /\ time_series_cols' = <<>>
    /\ mappings' = <<>>
    /\ id_vars' = <<>>
    /\ df_melt' = NoTable
    /\ df_out' = NoTable
    /\ df_reshaped' = NoTable
    /\ path' = "none"

tableVars == <<df, time_series_cols, mappings, id_vars, df_melt, df_out,
               df_reshaped, path>>

extractVars == <<col_name, result>>

\* files = get_files(); print(f"Processing {len(files)} files...")
GetFiles ==
    /\ pc = "main"
    /\ files' = get_files(input_dir)
    /\ fi' = 1
    /\ log' = (IF input_dir.exists THEN log
               ELSE Append(log, Said("CRITICAL", <<>>)))
              \o <<Said("Processing", <<>>)>>
    /\ pc' = "loop"
    /\ UNCHANGED <<input_dir, tableVars, outputs, extractVars>>

\* The loop is over: the program ends.
Finish ==
    /\ pc = "loop"
    /\ fi > Len(files)
    /\ pc' = "done"
    /\ UNCHANGED <<input_dir, files, fi, tableVars, outputs, log, extractVars>>

\* process_table: read_csv raises, the error is printed, the call returns.
ReadError ==
    /\ pc = "loop"
    /\ fi <= Len(files)
    /\ ~files[fi].readable
    /\ log' = Append(log, Said("Error reading", files[fi].name))
    /\ fi' = fi + 1
    /\ ResetLocals
    /\ UNCHANGED <<input_dir, files, pc, outputs, extractVars>>

\* process_table: the table is empty, the call returns.
ReadEmpty ==
    /\ pc = "loop"
    /\ fi <= Len(files)
    /\ files[fi].readable
    /\ IsEmpty(files[fi].table)
    /\ fi' = fi + 1
    /\ ResetLocals
    /\ UNCHANGED <<input_dir, files, pc, outputs, log, extractVars>>

\* process_table: df = pd.read_csv(file_path)
ReadCsv ==
    /\ pc = "loop"
    /\ fi <= Len(files)
    /\ files[fi].readable
    /\ ~IsEmpty(files[fi].table)
    /\ df' = files[fi].table
    /\ pc' = "classify"
    /\ UNCHANGED <<input_dir, files, fi, time_series_cols, mappings, id_vars,
                   df_melt, df_out, df_reshaped, path, outputs, log, extractVars>>

\* Step 1.
Classify ==
    /\ pc = "classify"
    /\ time_series_cols' = TimeSeriesCols(df.columns)
    /\ mappings' = Mappings(df.columns)
    /\ id_vars' = IdVars(df.columns, TimeSeriesCols(df.columns))
    /\ pc' = "reshape"
    /\ UNCHANGED <<input_dir, files, fi, df, df_melt, df_out, df_reshaped, path,
                   outputs, log, extractVars>>

\* Step 2, no time series: df_out = df.copy()
PassThrough ==
    /\ pc = "reshape"
    /\ time_series_cols = <<>>
    /\ df_out' = df
    /\ path' = "pass"
    /\ log' = Append(log, Said("Pass-Through", files[fi].name))
    /\ pc' = "clean"
    /\ UNCHANGED <<input_dir, files, fi, df, time_series_cols, mappings, id_vars,
                   df_melt, df_reshaped, outputs, extractVars>>

\* Step 2, time series: df.melt(...)
MeltStep ==
    /\ pc = "reshape"
    /\ time_series_cols # <<>>
    /\ ~MeltRaises(df)
    /\ df_melt' = Melt(df, id_vars, time_series_cols)
    /\ log' = Append(log, Said("Flattening", files[fi].name))
    /\ pc' = "map"
    /\ UNCHANGED <<input_dir, files, fi, df, time_series_cols, mappings, id_vars,
                   df_out, df_reshaped, path, outputs, extractVars>>

\* df.melt raises: nothing catches it in process_table or in the main loop.
MeltError ==
    /\ pc = "reshape"
    /\ time_series_cols # <<>>
    /\ MeltRaises(df)
    /\ log' = Append(log, Said("Flattening", files[fi].name))
    /\ pc' = "aborted"
    /\ UNCHANGED <<input_dir, files, fi, tableVars, outputs, extractVars>>

\* df_melt['Year'], df_melt['Metric']
MapStep ==
    /\ pc = "map"
    /\ df_melt' = MapYearMetric(df_melt, mappings)
    /\ pc' = "pivot"
    /\ UNCHANGED <<input_dir, files, fi, df, time_series_cols, mappings, id_vars,
                   df_out, df_reshaped, path, outputs, log, extractVars>>

\* The pivot succeeds.
PivotStep ==
    /\ pc = "pivot"
    /\ ~PivotRaises(df_melt, id_vars)
    /\ df_out' = PivotTable(df_melt, id_vars)
    /\ path' = "pivot"
    /\ pc' = "clean"
    /\ UNCHANGED <<input_dir, files, fi, df, time_series_cols, mappings, id_vars,
                   df_melt, df_reshaped, outputs, log, extractVars>>

\* The pivot raises: df_out = df_melt.drop(columns=['original_header'])
PivotFallback ==
    /\ pc = "pivot"
    /\ PivotRaises(df_melt, id_vars)
    /\ df_out' = DropColumn(df_melt, OriginalHeaderName)
    /\ path' = "long"
    /\ log' = Append(log, Said("Pivot Failed", files[fi].name))
    /\ pc' = "clean"
    /\ UNCHANGED <<input_dir, files, fi, df, time_series_cols, mappings, id_vars,
                   df_melt, df_reshaped, outputs, extractVars>>

\* Step 3, the whole loop over df_out.columns.
CleanStep ==
    /\ pc = "clean"
    /\ df_reshaped' = df_out
    /\ df_out' = CleanTypes(df_out, id_vars)
    /\ pc' = "save"
    /\ UNCHANGED <<input_dir, files, fi, df, time_series_cols, mappings, id_vars,
                   df_melt, path, outputs, log, extractVars>>

\* Step 4: the directory is made, the file written, the call returns.
Save ==
    /\ pc = "save"
    /\ outputs' = Append(outputs, [name  |-> FlatPrefix \o files[fi].name,
                                   table |-> df_out])
    /\ log' = Append(log, Said("Saved", FlatPrefix \o files[fi].name))
    /\ fi' = fi + 1
    /\ pc' = "loop"
    /\ ResetLocals
    /\ UNCHANGED <<input_dir, files, extractVars>>

\* Step 4: os.makedirs or to_csv raises (the output path is a file, the disk
\* is full, ...): nothing catches it in process_table or in the main loop.
SaveError ==
    /\ pc = "save"
    /\ pc' = "aborted"
    /\ UNCHANGED <<input_dir, files, fi, tableVars, outputs, log, extractVars>>

\* A call of extract_year_and_metric.
Extract ==
    /\ pc = "extract"
    /\ result' = extract_year_and_metric(col_name)
    /\ pc' = "extracted"
    /\ UNCHANGED <<input_dir, files, fi, tableVars, outputs, log, col_name>>

Next ==
    \/ GetFiles
    \/ Finish
    \/ ReadError
    \/ ReadEmpty
    \/ ReadCsv
    \/ Classify
    \/ PassThrough
    \/ MeltStep
    \/ MeltError
    \/ MapStep
    \/ PivotStep
    \/ PivotFallback
    \/ CleanStep
    \/ Save
    \/ SaveError

Spec == Init /\ [][Next]_vars

SpecBatch == InitBatch /\ [][Next]_vars

NextExtract == Extract

SpecExtract == InitExtract /\ [][NextExtract]_vars

(***************************************************************************)
(* Properties                                                              *)
(***************************************************************************)
\* A run of four digits starts somewhere in the header.
HasFourDigitRun(h) ==
    \E i \in 1..(Len(h) - 3) :
        h[i] \in Digits /\ h[i + 1] \in Digits /\ h[i + 2] \in Digits
        /\ h[i + 3] \in Digits

\* sub lists, in the order of full, the elements of full that are in it.
KeepsOrder(sub, full) ==
    /\ Range(sub) \subseteq Range(full)
    /\ Len(sub) = Cardinality(Range(sub))
    /\ \A i, j \in 1..Len(sub) :
          i < j => ColIndex(full, sub[i]) < ColIndex(full, sub[j])

\* C3: after classification every header is in exactly one of the anchors
\* and the time-series columns, it is a time-series column exactly when it
\* holds a run of four digits, the keys of the mapping are the time-series
\* columns, and both lists keep the order of the columns of the table.
C3_Partition ==
    pc = "reshape" =>
        /\ \A c \in Range(df.columns) :
              (c \in Range(time_series_cols)) # (c \in Range(id_vars))
        /\ Range(time_series_cols) \cup Range(id_vars) = Range(df.columns)
        /\ \A c \in Range(df.columns) :
              c \in Range(time_series_cols) <=> HasFourDigitRun(c)
        /\ DOMAIN mappings = Range(time_series_cols)
        /\ KeepsOrder(time_series_cols, df.columns)
        /\ KeepsOrder(id_vars, df.columns)

\* A table whose first column is a time series and whose second is an anchor
\* with digits in its name, classified.
C3_Witness ==
    /\ pc = "reshape"
    /\ df.columns = <<H_2018_Rate, H_ID>>
    /\ time_series_cols = <<H_2018_Rate>>
    /\ id_vars = <<H_ID>>

\* C2: a table with no time-series column reaches the write step with the
\* columns, the rows and the cells it was read with; type cleaning changed
\* nothing.
C2_PassThrough ==
    (pc = "save" /\ path = "pass") =>
        /\ df_out.columns = df.columns
        /\ df_out.rows = df.rows
        /\ df_out = df_reshaped

\* A pass-through table with a sentinel and a number as text at the write step.
C2_Witness ==
    /\ pc = "save"
    /\ path = "pass"
    /\ \E r \in 1..Len(df.rows) :
          /\ df.rows[r][1] = Str(<<"F">>)
          /\ df.rows[r][2] = Str(<<"1", "2">>)
    /\ df_out = df

\* The text is a run of digits that is the decimal form of cell's number.
IsNumberOf(text, cell) == cell.k = "num" /\ IntText(cell.n) = text

\* The text is no number: a character of it is neither a digit nor a sign.
IsNoNumber(text) ==
    \E i \in 1..Len(text) : text[i] \notin Digits \cup {"-", "+", "."}

CellsBefore(j) == [r \in 1..Len(df_reshaped.rows) |-> df_reshaped.rows[r][j]]

CellsAfter(j) == [r \in 1..Len(df_out.rows) |-> df_out.rows[r][j]]

HasRangeValue(j) ==
    \E r \in 1..Len(df_reshaped.rows) :
        /\ CellsBefore(j)[r] # NA
        /\ \E a, b \in 1..Len(CellsBefore(j)[r].s) :
              /\ a + 2 = b
              /\ CellsBefore(j)[r].s[a] \in Digits
              /\ CellsBefore(j)[r].s[a + 1] \in {"-", EnDash}
              /\ CellsBefore(j)[r].s[b] \in Digits

\* C6: type cleaning decides column by column.  An anchor, Year, a column of
\* missing values only and a column with a range value are left as they
\* were; in any other column every cell becomes its number or, when it is no
\* number, missing.  No column mixes coerced cells and text.
C6_WholeColumn ==
    pc = "save" =>
        /\ df_out.columns = df_reshaped.columns
        /\ Len(df_out.rows) = Len(df_reshaped.rows)
        /\ \A j \in 1..Len(df_out.columns) :
              IF \/ df_out.columns[j] \in Range(id_vars)
                 \/ df_out.columns[j] = YearName
                 \/ \A r \in 1..Len(df_reshaped.rows) : CellsBefore(j)[r] = NA
                 \/ HasRangeValue(j)
              THEN CellsAfter(j) = CellsBefore(j)
              ELSE \A r \in 1..Len(df_out.rows) :
                      /\ CellsAfter(j)[r].k # "str"
                      /\ CellsBefore(j)[r] = NA => CellsAfter(j)[r] = NA
                      /\ (CellsBefore(j)[r] # NA /\ IsNoNumber(CellsBefore(j)[r].s))
                            => CellsAfter(j)[r] = NA
                      /\ (CellsBefore(j)[r] # NA /\ ~IsNoNumber(CellsBefore(j)[r].s))
                            => IsNumberOf(CellsBefore(j)[r].s, CellsAfter(j)[r])

\* A flattened table in which one metric column holds a range beside a number
\* as text and is kept, and another holds a number and a sentinel and is
\* coerced.
C6_Witness ==
    /\ pc = "save"
    /\ path = "pivot"
    /\ \E j, k \in 1..Len(df_out.columns) :
          /\ df_out.columns[j] \notin Range(id_vars) \cup {YearName}
          /\ df_out.columns[k] \notin Range(id_vars) \cup {YearName}
          /\ HasRangeValue(j)
          /\ \E r \in 1..Len(df_out.rows) : CellsAfter(j)[r] = Str(<<"1", "2">>)
          /\ \E r \in 1..Len(df_out.rows) :
                CellsBefore(k)[r] = Str(<<"F">>) /\ CellsAfter(k)[r] = NA
          /\ \E r \in 1..Len(df_out.rows) :
                CellsBefore(k)[r] = Str(<<"1", "2">>) /\ CellsAfter(k)[r] = Num(12)

(***************************************************************************)
(* The flatten path, read off the input table                              *)
(***************************************************************************)
InPivot == pc = "clean" /\ path = "pivot"

InCell(r, c) == df.rows[r][ColIndex(df.columns, c)]

AnchorsOf(r) == [i \in 1..Len(id_vars) |-> InCell(r, id_vars[i])]

\* No anchor of input row r is missing.
CompleteRow(r) == \A i \in 1..Len(id_vars) : AnchorsOf(r)[i] # NA

InRows == 1..Len(df.rows)

YearOf(c) == mappings[c][1]

MetricOf(c) == mappings[c][2]

AllYears == {YearOf(c) : c \in Range(time_series_cols)}

AllMetrics == {MetricOf(c) : c \in Range(time_series_cols)}

\* The metrics with a value in some input row whose anchors are all there.
LiveMetrics ==
    {MetricOf(c) : c \in {d \in Range(time_series_cols) :
                            \E r \in InRows : CompleteRow(r) /\ InCell(r, d) # NA}}

DistinctAnchors ==
    \A r1, r2 \in InRows : r1 # r2 => AnchorsOf(r1) # AnchorsOf(r2)

DistinctPairs ==
    \A c1, c2 \in Range(time_series_cols) : c1 # c2 => mappings[c1] # mappings[c2]

\* The (anchor tuple, Year) of output row q.
OutKey(q) ==
    [i \in 1..Len(id_vars) |->
        df_out.rows[q][ColIndex(df_out.columns, id_vars[i])]]
    \o <<df_out.rows[q][ColIndex(df_out.columns, YearName)]>>

OutRowsFor(key, y) ==
    {q \in 1..Len(df_out.rows) : OutKey(q) = key \o <<Str(y)>>}

\* The cell of the output for an anchor tuple, a year and a metric; missing
\* when the output has no such row or no such column.
OutCell(key, y, m) ==
    IF \/ OutRowsFor(key, y) = {}
       \/ m \notin Range(df_out.columns)
       \/ m \in Range(id_vars) \cup {YearName}
    THEN NA
    ELSE df_out.rows[CHOOSE q \in OutRowsFor(key, y) : TRUE]
                    [ColIndex(df_out.columns, m)]

UniqueKeys ==
    \A q1, q2 \in 1..Len(df_out.rows) : q1 # q2 => OutKey(q1) # OutKey(q2)

AllComplete == \A r \in InRows : CompleteRow(r)

NoMissing == \A r \in InRows : \A c \in Range(df.columns) : InCell(r, c) # NA

\* C4 as stated, for tables whose anchors are all there and whose output has
\* a row: the columns are the anchors, Year and every metric name; each
\* (anchor tuple, Year) is in at most one row; with distinct anchor tuples
\* and distinct (Year, Metric) pairs there are rows x years output rows, each
\* cell the original cell.
C4_Original ==
    (InPivot /\ AllComplete /\ df_out.rows # <<>>) =>
        /\ Range(df_out.columns) = Range(id_vars) \cup {YearName} \cup AllMetrics
        /\ Len(df_out.columns) = Cardinality(Range(df_out.columns))
        /\ UniqueKeys
        /\ (DistinctAnchors /\ DistinctPairs) =>
              /\ Len(df_out.rows) = Len(df.rows) * Cardinality(AllYears)
              /\ \A r \in InRows : \A c \in Range(time_series_cols) :
                    OutCell(AnchorsOf(r), YearOf(c), MetricOf(c)) = InCell(r, c)

\* The (input row, year) pairs that reach the output: the anchors of the row
\* are all there and the row has a value for that year.
LivePairs ==
    {ry \in InRows \X AllYears :
        /\ CompleteRow(ry[1])
        /\ \E c \in Range(time_series_cols) :
              YearOf(c) = ry[2] /\ InCell(ry[1], c) # NA}

\* C4 as amended: the columns are the anchors, Year and the metrics that have
\* a value in a row with all its anchors; each (anchor tuple, Year) is in at
\* most one row; with distinct anchor tuples and distinct (Year, Metric)
\* pairs there is one output row per (row with all its anchors, year) that
\* has a value, and the output cell for (row, column) is the original cell
\* for every row with all its anchors.
C4_Flatten ==
    InPivot =>
        /\ Range(df_out.columns) = Range(id_vars) \cup {YearName} \cup LiveMetrics
        /\ Len(df_out.columns) = Cardinality(Range(df_out.columns))
        /\ UniqueKeys
        /\ (DistinctAnchors /\ DistinctPairs) =>
              /\ Len(df_out.rows) = Cardinality(LivePairs)
              /\ \A r \in InRows : \A c \in Range(time_series_cols) :
                    CompleteRow(r) =>
                        OutCell(AnchorsOf(r), YearOf(c), MetricOf(c)) = InCell(r, c)

\* Two rows with different anchors and two years of one metric, all four
\* values there: four output rows.
C4_Witness ==
    /\ InPivot
    /\ df.columns = <<H_ID, H_2018_Rate, H_2019_Rate>>
    /\ Len(df.rows) = 2
    /\ DistinctAnchors
    /\ DistinctPairs
    /\ \A r \in InRows : CompleteRow(r)
    /\ \A r \in InRows : \A c \in Range(time_series_cols) : InCell(r, c) # NA
    /\ Len(df_out.rows) = 4

\* The melt contributions to one output cell: (time-series column number,
\* input row number) pairs with these anchors, this year and this metric.
Contribs(key, y, m) ==
    {jr \in (1..Len(time_series_cols)) \X InRows :
        /\ AnchorsOf(jr[2]) = key
        /\ mappings[time_series_cols[jr[1]]] = <<y, m>>}

\* Melt traversal order: columns in their order, rows in theirs within each.
Before(a, b) == a[1] < b[1] \/ (a[1] = b[1] /\ a[2] < b[2])

FirstOf(S) == CHOOSE a \in S : \A b \in S \ {a} : Before(a, b)

ValueAt(jr) == InCell(jr[2], time_series_cols[jr[1]])

GroupKeys ==
    {<<AnchorsOf(r), YearOf(c), MetricOf(c)>> :
        r \in {q \in InRows : CompleteRow(q)}, c \in Range(time_series_cols)}

\* C5 as stated: a cell with two or more contributions holds the value of the
\* first of them in melt order, missing or not.
C5_Original ==
    InPivot =>
        \A g \in GroupKeys :
            Cardinality(Contribs(g[1], g[2], g[3])) >= 2 =>
                OutCell(g[1], g[2], g[3]) = ValueAt(FirstOf(Contribs(g[1], g[2], g[3])))

\* C5 as amended: a cell with two or more contributions holds the first value
\* in melt order that is not missing, and is missing when all of them are.
C5_FirstNonMissing ==
    InPivot =>
        \A g \in GroupKeys :
            LET S == Contribs(g[1], g[2], g[3])
                N == {a \in S : ValueAt(a) # NA}
            IN  Cardinality(S) >= 2 =>
                    IF N = {} THEN OutCell(g[1], g[2], g[3]) = NA
                    ELSE OutCell(g[1], g[2], g[3]) = ValueAt(FirstOf(N))

\* A cell with two contributions of different values, the first of which is
\* in the output.
C5_Witness ==
    /\ InPivot
    /\ \E g \in GroupKeys :
          LET S == Contribs(g[1], g[2], g[3])
              N == {a \in S : ValueAt(a) # NA}
          IN  /\ Cardinality(N) >= 2
              /\ \E a \in N : ValueAt(a) # ValueAt(FirstOf(N))
              /\ OutCell(g[1], g[2], g[3]) = ValueAt(FirstOf(N))

\* The metric names in the order the time-series columns first give them.
FirstEncountered ==
    LET first == SelectSeq([j \in 1..Len(time_series_cols) |-> j],
                           LAMBDA j : \A i \in 1..(j - 1) :
                               MetricOf(time_series_cols[i])
                                   # MetricOf(time_series_cols[j]))
    IN  [k \in 1..Len(first) |-> MetricOf(time_series_cols[first[k]])]

MetricCols == SubText(df_out.columns, Len(id_vars) + 2, Len(df_out.columns))

\* C10 as stated, for tables with no missing cell: anchors, Year, then the
\* metrics in first-encountered order.
C10_Original ==
    (InPivot /\ NoMissing) => df_out.columns = id_vars \o <<YearName>> \o FirstEncountered

\* C10 as amended: anchors in input order, Year, then the metrics that have a
\* value in a row with all its anchors, each once, in ascending order of
\* their code points.
C10_Sorted ==
    InPivot =>
        /\ SubText(df_out.columns, 1, Len(id_vars) + 1) = id_vars \o <<YearName>>
        /\ KeepsOrder(id_vars, df.columns)
        /\ Range(MetricCols) = LiveMetrics
        /\ \A i, j \in 1..Len(MetricCols) :
              i < j => TextLess(MetricCols[i], MetricCols[j])

\* Two metric columns whose order is not the order they were met in.
C10_Witness ==
    /\ InPivot
    /\ Len(MetricCols) = 2
    /\ MetricCols # FirstEncountered
    /\ Range(MetricCols) = Range(FirstEncountered)

(***************************************************************************)
(* A second pass over the output of a first                                *)
(***************************************************************************)
\* Nothing after the first year match of the header is a year match.
SingleYear(h) ==
    LET at  == YEAR_PATTERN(h)
        end == at + YearMatchLen(h, at) - 1
    IN  at # 0 /\ ~HasFourDigitRun(SubText(h, end + 1, Len(h)))

\* process_table on df_out: the table is not skipped as empty, no header
\* yields a year, and the pass-through leaves every cell as it is.
SecondPassNoOp ==
    /\ ~IsEmpty(df_out)
    /\ \A c \in Range(df_out.columns) : ~HasFourDigitRun(c)
    /\ TimeSeriesCols(df_out.columns) = <<>>
    /\ CleanTypes(df_out, IdVars(df_out.columns, TimeSeriesCols(df_out.columns)))
           = df_out

\* C7 as stated, for flattened tables that have a row: after a flatten with a
\* successful pivot a second pass is a pass-through that changes nothing.
C7_Original ==
    (pc = "save" /\ path = "pivot" /\ df_out.rows # <<>>) => SecondPassNoOp

\* C7 as amended: the same, for tables whose time-series headers hold one
\* year match each and whose flattened output has a row.
C7_SecondPass ==
    (/\ pc = "save"
     /\ path = "pivot"
     /\ \A c \in Range(time_series_cols) : SingleYear(c)
     /\ df_out.rows # <<>>) => SecondPassNoOp

\* A flattened table with rows, an anchor holding a sentinel and a metric
\* column, on which the second pass changes nothing.
C7_Witness ==
    /\ pc = "save"
    /\ path = "pivot"
    /\ \A c \in Range(time_series_cols) : SingleYear(c)
    /\ Len(df_out.rows) = 2
    /\ Len(df_out.columns) > Len(id_vars) + 1
    /\ df_out.rows[1][1] = Str(<<"F">>)
    /\ SecondPassNoOp

(***************************************************************************)
(* The fallback to the long format                                         *)
(***************************************************************************)
\* The header the k-th row of the long table comes from.
LongHeader(k) == time_series_cols[((k - 1) \div Len(df.rows)) + 1]

\* C9: when the pivot raises, the table at the write step is the long table:
\* the anchors, Year, Metric and the value, without original_header, one row
\* per (input row, time-series column), each with the year and the metric of
\* its header.
C9_Fallback ==
    (pc = "save" /\ path = "long") =>
        /\ Range(df_out.columns)
              = Range(id_vars) \cup {YearName, MetricName, TempValueName}
        /\ Len(df_out.rows) = Len(df.rows) * Len(time_series_cols)
        /\ \A k \in 1..Len(df_out.rows) :
              /\ df_out.rows[k][ColIndex(df_out.columns, YearName)]
                    = Str(YearOf(LongHeader(k)))
              /\ df_out.rows[k][ColIndex(df_out.columns, MetricName)]
                    = Str(MetricOf(LongHeader(k)))

(***************************************************************************)
(* The batch                                                               *)
(***************************************************************************)
\* C1: no failure in one file stops the batch: the program never ends on an
\* exception, and when it ends every file of the list has been taken.
C1_Isolation ==
    /\ pc # "aborted"
    /\ pc = "done" => fi = Len(files) + 1

(***************************************************************************)
(* extract_year_and_metric                                                 *)
(***************************************************************************)
Max(S) == CHOOSE x \in S : \A y \in S : x >= y

FourDigitsFrom(h, i) ==
    /\ i + 3 <= Len(h)
    /\ \A k \in i..(i + 3) : h[k] \in Digits

\* The first match of the year pattern in h: four digits at the leftmost
\* place that has them, with a dash and four more digits when they follow.
FirstMatch(h) ==
    LET i == Min({k \in 1..Len(h) : FourDigitsFrom(h, k)})
    IN  IF i + 4 <= Len(h) /\ h[i + 4] \in {"-", EnDash} /\ FourDigitsFrom(h, i + 5)
        THEN SubText(h, i, i + 8)
        ELSE SubText(h, i, i + 3)

\* The places of h where an occurrence of m is taken out, from the left,
\* occurrences that overlap an earlier one left alone.
Removed(h, m) ==
    LET f[p \in 0..Len(h)] ==
            IF p = 0 THEN FALSE
            ELSE /\ StartsWithAt(h, p, m)
                 /\ \A q \in 1..(p - 1) : (q + Len(m) > p) => ~f[q]
    IN  {p \in 1..Len(h) : f[p]}

\* h without the occurrences of m.
WithoutAll(h, m) ==
    LET gone == Removed(h, m)
        keep == SelectSeq([i \in 1..Len(h) |-> i],
                          LAMBDA i : \A p \in gone : i < p \/ i >= p + Len(m))
    IN  [k \in 1..Len(keep) |-> h[keep[k]]]

\* t from its first to its last character that is not in chars.
Inner(t, chars) ==
    LET in == {i \in 1..Len(t) : t[i] \notin chars}
    IN  IF in = {} THEN <<>> ELSE SubText(t, Min(in), Max(in))

OrValue(t) == IF t = <<>> THEN ValueText ELSE t

\* C8 as stated: the year is the first match with the en dash as a hyphen;
\* the metric is the header without the first occurrence of the match,
\* trimmed, with one bracket off each edge, "Value" when nothing is left.
C8_Original ==
    (pc = "extracted" /\ HasFourDigitRun(col_name)) =>
        /\ result.matched
        /\ result.year = NormalizeDash(FirstMatch(col_name))
        /\ result.metric =
              OrValue(StripOneLayer(
                  Inner(ReplaceFirstOnly(col_name, FirstMatch(col_name)), Whitespace),
                  BracketChars))

\* C8 as amended: the year is the first match with the en dash as a hyphen;
\* the metric is the header without every occurrence of the match, trimmed,
\* with every leading and trailing bracket off, "Value" when nothing is
\* left; "<text> YYYY" gives (YYYY, <text>) and "YYYY" gives (YYYY, "Value").
C8_Metric ==
    (pc = "extracted" /\ HasFourDigitRun(col_name)) =>
        /\ result.matched
        /\ result.year = NormalizeDash(FirstMatch(col_name))
        /\ \A i \in 1..Len(result.year) : result.year[i] # EnDash
        /\ result.metric =
              OrValue(Inner(Inner(WithoutAll(col_name, FirstMatch(col_name)),
                                  Whitespace),
                            BracketChars))
        /\ col_name = <<"R", " ", "2", "0", "1", "8">> =>
              result = [matched |-> TRUE, year |-> <<"2", "0", "1", "8">>,
                        metric |-> <<"R">>]
        /\ col_name = <<"2", "0", "1", "8">> =>
              result = [matched |-> TRUE, year |-> <<"2", "0", "1", "8">>,
                        metric |-> ValueText]

\* A header in which the match occurs twice, both occurrences gone from the
\* metric.
C8_Witness ==
    /\ pc = "extracted"
    /\ HasFourDigitRun(col_name)
    /\ Cardinality(Removed(col_name, FirstMatch(col_name))) = 2
    /\ result.metric = <<"R">>

====
